---- MODULE Spec2Model ----
(***************************************************************************)
(* Model of src/run_transformation.py: the driver of the NFL play-by-play  *)
(* to event-log pipeline (download -> SQL transformation -> validation ->  *)
(* save -> display).                                                       *)
(*                                                                         *)
(* One run of main() is a state machine.  Each blocking operation of a     *)
(* stage (pd.read_csv, DataFrame.to_sql, open/read, conn.execute,          *)
(* pd.read_sql, the validator, DataFrame.to_csv, the sample display) is    *)
(* one action whose input is the event that ends it: "ok", the error the   *)
(* operation raises, or a KeyboardInterrupt delivered while it runs.  The  *)
(* except/finally clauses that the event then passes through are computed  *)
(* in the same step by the handler operators below, so a handler's print   *)
(* and sys.exit are not themselves interruption points.                    *)
(*                                                                         *)
(* The ruleset src/transform_data.sql is an input of the driver: its text  *)
(* is a sequence of ";"-separated chunks of a few kinds, and the relation  *)
(* it leaves in final_cleaned_dataset is an arbitrary small data frame.    *)
(***************************************************************************)
EXTENDS Integers, Sequences, FiniteSets, TLC

VARIABLES pc, raw_data, conn, db, statements, i, event_log,
          valid, reported, outFile, exitCode, trace, failure, cancelled

vars == <<pc, raw_data, conn, db, statements, i, event_log,
          valid, reported, outFile, exitCode, trace, failure, cancelled>>

\* Bounds of the model.
MaxRows == 2
MaxStmts == 3

-----------------------------------------------------------------------------
\* Data frames

NULL == "NULL"
ABSENT == "absent"

\* Faulty variant: transformed_time is not required.
required_columns_NoTime == <<"case_id", "activity_name">>

required_columns == <<"case_id", "activity_name", "transformed_time">>

RequiredSet == {required_columns[k] : k \in 1..Len(required_columns)}

Columns == {"case_id", "activity_name", "transformed_time", "posteam"}

\* Possession team of the play a record derives from (NULL: no possession).
Teams == {"NE", "KC", NULL}

\* Values a cell of a column can hold; a column the frame does not have
\* holds nothing.
CellValues(col, cols) ==
    IF col \in cols THEN {NULL, IF col = "case_id" THEN "drive1"
                                ELSE IF col = "activity_name" THEN "Pass"
                                ELSE "t1"}
    ELSE {ABSENT}

RowsOver(cols) ==
    [case_id : CellValues("case_id", cols),
     activity_name : CellValues("activity_name", cols),
     transformed_time : CellValues("transformed_time", cols),
     team : Teams]

\* The frames pd.read_sql can return: any set of columns, up to MaxRows rows.
\* "posteam" \in columns says the ruleset projected the possession team.
EventLogs ==
    UNION { UNION { [columns : {cols}, rows : [1..n -> RowsOver(cols)]]
                    : n \in 0..MaxRows }
            : cols \in SUBSET Columns }

\* event_log[col] of one row
Cell(row, col) ==
    IF col = "posteam" THEN row.team
    ELSE IF col = "case_id" THEN row.case_id
    ELSE IF col = "activity_name" THEN row.activity_name
    ELSE row.transformed_time

\* event_log[col].isna().any()
IsNaAny(log, col) == \E k \in 1..Len(log.rows) : Cell(log.rows[k], col) = NULL

\* event_log[col].unique(): the distinct values in order of first appearance,
\* a missing value counted as a value
RECURSIVE UniqueFrom(_, _, _, _)
UniqueFrom(log, col, k, acc) ==
    IF k > Len(log.rows) THEN acc
    ELSE LET v == Cell(log.rows[k], col)
         IN  IF \E j \in 1..Len(acc) : acc[j] = v
             THEN UniqueFrom(log, col, k + 1, acc)
             ELSE UniqueFrom(log, col, k + 1, Append(acc, v))

Unique(log, col) == UniqueFrom(log, col, 1, <<>>)

-----------------------------------------------------------------------------
\* validate_transformation

\* missing_columns = [col for col in required_columns if col not in columns]
MissingColumns(log) ==
    SelectSeq(required_columns, LAMBDA c : c \notin log.columns)

\* event_log.empty
IsEmpty(log) == Len(log.rows) = 0 \/ log.columns = {}

\* Faulty variant: .isna().all() instead of .isna().any()
HasNullCaseId_All(log) ==
    \A k \in 1..Len(log.rows) : Cell(log.rows[k], "case_id") = NULL

HasNullCaseId(log) == IsNaAny(log, "case_id")

\* Faulty variant: the activity_name check is left out.
HasNullActivity_Never(log) == FALSE

HasNullActivity(log) == IsNaAny(log, "activity_name")

\* Faulty variant: only the first team is compared with 'NE'.
NotOnlyNE_FirstOnly(log) ==
    /\ "posteam" \in log.columns
    /\ Unique(log, "posteam")[1] # "NE"

\* if 'posteam' in columns: len(unique_teams) != 1 or unique_teams[0] != 'NE'
NotOnlyNE(log) ==
    /\ "posteam" \in log.columns
    /\ LET unique_teams == Unique(log, "posteam")
       IN  Len(unique_teams) # 1 \/ unique_teams[1] # "NE"

\* The messages the validator prints before "return False": it returns at the
\* first check that fails.
ValidateReport(log) ==
    IF MissingColumns(log) # <<>> THEN <<"missing_columns">>
    ELSE IF IsEmpty(log) THEN <<"empty">>
    ELSE IF HasNullCaseId(log) THEN <<"null_case_id">>
    ELSE IF HasNullActivity(log) THEN <<"null_activity_name">>
    ELSE IF NotOnlyNE(log) THEN <<"not_only_NE">>
    ELSE <<>>

\* The bool the validator returns.
validate_transformation(log) == ValidateReport(log) = <<>>

-----------------------------------------------------------------------------
\* Exceptions and the handlers they pass through

SystemExit(code) == IF code = 0 THEN "SystemExit0" ELSE "SystemExit1"

\* isinstance(exc, Exception): KeyboardInterrupt and SystemExit derive from
\* BaseException only.
IsException(exc) == exc \in {"Exception", "OSError", "sqlite3.Error"}

\* Faulty variant: the handler prints and forgets sys.exit(1); the function returns None.
download_nflverse_data_NoExit(ev) ==
    IF ev = "ok" THEN "return"
    ELSE IF IsException(ev) THEN "return"
    ELSE ev

\* What leaves download_nflverse_data when pd.read_csv ends with ev:
\* "return", or the exception raised.
download_nflverse_data(ev) ==
    IF ev = "ok" THEN "return"
    ELSE IF IsException(ev) THEN SystemExit(1)
    ELSE ev

\* Faulty variant: the handler prints and forgets to re-raise.
statement_handler_NoRaise(ev) ==
    IF ev = "ok" THEN "next"
    ELSE IF ev = "sqlite3.Error" THEN "next"
    ELSE ev

\* What leaves the inner try around conn.execute: "next" (the loop goes on),
\* or the exception raised; "except sqlite3.Error" prints and re-raises.
statement_handler(ev) ==
    IF ev = "ok" THEN "next" ELSE ev

\* Faulty variant: a bare "except:" in place of "except Exception".
transformation_handler_BareExcept(ev) ==
    IF ev = "ok" THEN "return" ELSE SystemExit(1)

\* Faulty variant: "except KeyboardInterrupt: pass" ahead of "except Exception".
transformation_handler_SwallowInterrupt(ev) ==
    IF ev = "ok" THEN "return"
    ELSE IF IsException(ev) THEN SystemExit(1)
    ELSE "return"

\* What leaves the try of execute_sql_transformation when its body ends with
\* ev: "except Exception" prints and calls sys.exit(1).
transformation_handler(ev) ==
    IF ev = "ok" THEN "return"
    ELSE IF IsException(ev) THEN SystemExit(1)
    ELSE ev

\* Faulty variant: conn.close() before "return event_log" instead of in a finally.
ConnAfterFinally_OnReturnOnly(out) == IF out = "return" THEN "closed" ELSE "open"

\* finally: conn.close(), whatever leaves the try.
ConnAfterFinally(out) == "closed"

\* Faulty variant: the result of the validator is not acted on.
MainAfterValidation_Ignored(ok) == "continue"

\* if not validate_transformation(event_log): ... sys.exit(1)
MainAfterValidation(ok) == IF ok THEN "continue" ELSE SystemExit(1)

\* The exit code of the process when exc reaches the try of main
\* ("return": main runs to its end).
main_handler(exc) ==
    IF exc = "return" THEN 0
    ELSE IF exc = "KeyboardInterrupt" THEN 0
    ELSE IF IsException(exc) THEN 1
    ELSE IF exc = "SystemExit0" THEN 0
    ELSE 1

-----------------------------------------------------------------------------
\* The ruleset file

StatementKinds == {"empty", "block_comment", "dash_comment",
                   "create_final", "other", "bad"}

\* sql_content.split(';'): up to MaxStmts chunks
RulesetTexts == UNION { [1..n -> StatementKinds] : n \in 0..MaxStmts }

\* [stmt.strip() for stmt in ... if stmt.strip() and
\*                                  not stmt.strip().startswith('/*')]
SplitStatements(content) ==
    SelectSeq(content, LAMBDA s : s # "empty" /\ s # "block_comment")

\* if statement and not statement.startswith('--')
IsExecuted(statement) == statement # "dash_comment"

EmptyDb == [tables |-> {}, executed |-> <<>>]

Stages == <<"acquire", "transform", "validate", "persist">>

-----------------------------------------------------------------------------
\* One run of main()

Init ==
    /\ pc = "main"
    /\ raw_data = "None"
    /\ conn = "none"
    /\ db = EmptyDb
    /\ statements = <<>>
    /\ i = 0
    /\ event_log = <<>>
    /\ valid = "unset"
    /\ reported = <<>>
    /\ outFile = "none"
    /\ exitCode = -1
    /\ trace = <<>>
    /\ failure = "none"
    /\ cancelled = "none"

\* The history of the run: which stage raised a fatal error, which stage a
\* KeyboardInterrupt was delivered in.
Record(ev, what) ==
    /\ failure' = IF ev \notin {"ok", "KeyboardInterrupt"} THEN what ELSE failure
    /\ cancelled' = IF ev = "KeyboardInterrupt" THEN what ELSE cancelled

\* exc leaves the try of main: the process ends.
Exit(exc) ==
    /\ pc' = "done"
    /\ exitCode' = main_handler(exc)

MainStart ==
    /\ pc = "main"
    /\ pc' = "download"
    /\ trace' = Append(trace, "acquire")
    /\ UNCHANGED <<raw_data, conn, db, statements, i, event_log, valid,
                   reported, outFile, exitCode, failure, cancelled>>

\* raw_data = download_nflverse_data()
Download(ev) ==
    /\ pc = "download"
    /\ LET out == download_nflverse_data(ev)
       IN  /\ raw_data' = IF ev = "ok" THEN "df" ELSE raw_data
           /\ IF out = "return"
              THEN /\ pc' = "connect"
                   /\ trace' = Append(trace, "transform")
                   /\ UNCHANGED exitCode
              ELSE /\ Exit(out)
                   /\ UNCHANGED trace
    /\ Record(ev, "acquire")
    /\ UNCHANGED <<conn, db, statements, i, event_log, valid, reported, outFile>>

\* conn = sqlite3.connect(':memory:'), and the try is entered
Connect ==
    /\ pc = "connect"
    /\ conn' = "open"
    /\ db' = EmptyDb
    /\ pc' = "to_sql"
    /\ UNCHANGED <<raw_data, statements, i, event_log, valid, reported,
                   outFile, exitCode, trace, failure, cancelled>>

\* The body of the try of execute_sql_transformation ends with ev ("ok": it
\* reached "return event_log" with result, a sequence of at most one frame):
\* the handler, the finally clause, and then main.
LeaveTransformation(ev, result, dbNow) ==
    LET out == transformation_handler(ev)
    IN  /\ conn' = ConnAfterFinally(out)
        /\ db' = IF conn' = "closed" THEN EmptyDb ELSE dbNow
        /\ statements' = <<>>
        /\ i' = 0
        /\ IF out = "return"
           THEN /\ event_log' = result
                /\ pc' = "validate"
                /\ trace' = Append(trace, "validate")
                /\ UNCHANGED exitCode
           ELSE /\ Exit(out)
                /\ UNCHANGED <<event_log, trace>>

\* raw_data.to_sql('raw_data', conn, ...)
ToSql(ev) ==
    /\ pc = "to_sql"
    /\ IF ev = "ok"
       THEN /\ db' = [db EXCEPT !.tables = @ \cup {"raw_data"}]
            /\ pc' = "read_ruleset"
            /\ UNCHANGED <<conn, statements, i, event_log, exitCode, trace>>
       ELSE LeaveTransformation(ev, <<>>, db)
    /\ Record(ev, "load")
    /\ UNCHANGED <<raw_data, valid, reported, outFile>>

\* open(SQL_FILE).read(), and the split into statements
ReadRuleset(ev) ==
    /\ pc = "read_ruleset"
    /\ IF ev = "ok"
       THEN /\ \E content \in RulesetTexts :
                  statements' = SplitStatements(content)
            /\ i' = 1
            /\ pc' = "execute"
            /\ UNCHANGED <<conn, db, event_log, exitCode, trace>>
       ELSE LeaveTransformation(ev, <<>>, db)
    /\ Record(ev, "ruleset_file")
    /\ UNCHANGED <<raw_data, valid, reported, outFile>>

\* for i, statement in enumerate(statements): a statement the if skips
SkipStatement ==
    /\ pc = "execute"
    /\ i <= Len(statements)
    /\ ~IsExecuted(statements[i])
    /\ i' = i + 1
    /\ UNCHANGED <<pc, raw_data, conn, db, statements, event_log, valid,
                   reported, outFile, exitCode, trace, failure, cancelled>>

\* What conn.execute(statement) can end with
ExecuteEvents(statement) ==
    IF statement = "bad" THEN {"sqlite3.Error", "KeyboardInterrupt"}
    ELSE {"ok", "KeyboardInterrupt"}

\* conn.execute(statement)
ExecuteStatement(ev) ==
    /\ pc = "execute"
    /\ i <= Len(statements)
    /\ IsExecuted(statements[i])
    /\ ev \in ExecuteEvents(statements[i])
    /\ LET dbNow == [tables |-> IF ev = "ok" /\ statements[i] = "create_final"
                                THEN db.tables \cup {"final_cleaned_dataset"}
                                ELSE db.tables,
                     executed |-> Append(db.executed, i)]
           out == statement_handler(ev)
       IN  IF out = "next"
           THEN /\ db' = dbNow
                /\ i' = i + 1
                /\ UNCHANGED <<pc, conn, statements, event_log, exitCode, trace>>
           ELSE LeaveTransformation(out, <<>>, dbNow)
    /\ Record(ev, "statement")
    /\ UNCHANGED <<raw_data, valid, reported, outFile>>

\* The loop is over.
LoopEnd ==
    /\ pc = "execute"
    /\ i > Len(statements)
    /\ pc' = "extract"
    /\ UNCHANGED <<raw_data, conn, db, statements, i, event_log, valid,
                   reported, outFile, exitCode, trace, failure, cancelled>>

\* What pd.read_sql('SELECT * FROM final_cleaned_dataset', conn) can end with
ExtractEvents(tables) ==
    IF "final_cleaned_dataset" \in tables
    THEN {"ok", "Exception", "KeyboardInterrupt"}
    ELSE {"Exception", "KeyboardInterrupt"}

\* event_log = pd.read_sql(...); return event_log
Extract(ev) ==
    /\ pc = "extract"
    /\ ev \in ExtractEvents(db.tables)
    /\ IF ev = "ok"
       THEN \E log \in EventLogs : LeaveTransformation(ev, <<log>>, db)
       ELSE LeaveTransformation(ev, <<>>, db)
    /\ Record(ev, IF "final_cleaned_dataset" \in db.tables
                  THEN "extract" ELSE "missing_relation")
    /\ UNCHANGED <<raw_data, valid, reported, outFile>>

\* if not validate_transformation(event_log): ...; sys.exit(1)
\* (validate_transformation(None) raises AttributeError)
Validate(ev) ==
    /\ pc = "validate"
    /\ IF ev = "KeyboardInterrupt"
       THEN /\ Exit(ev)
            /\ Record(ev, "validate")
            /\ UNCHANGED <<valid, reported, trace>>
       ELSE IF event_log = <<>>
       THEN /\ Exit("Exception")
            /\ Record("Exception", "validate")
            /\ UNCHANGED <<valid, reported, trace>>
       ELSE LET ok == validate_transformation(event_log[1])
                out == MainAfterValidation(ok)
            IN  /\ valid' = IF ok THEN "pass" ELSE "fail"
                /\ reported' = ValidateReport(event_log[1])
                /\ failure' = IF ok THEN failure ELSE "validation"
                /\ UNCHANGED cancelled
                /\ IF out = "continue"
                   THEN /\ pc' = "save"
                        /\ trace' = Append(trace, "persist")
                        /\ UNCHANGED exitCode
                   ELSE /\ Exit(out)
                        /\ UNCHANGED trace
    /\ UNCHANGED <<raw_data, conn, db, statements, i, event_log, outFile>>

\* save_output(event_log): mkdir and to_csv; an error or an interrupt may
\* leave no file or a part of it.
Save(ev) ==
    /\ pc = "save"
    /\ IF ev = "ok"
       THEN /\ outFile' = "complete"
            /\ pc' = "display"
            /\ UNCHANGED exitCode
       ELSE /\ outFile' \in {"none", "partial"}
            /\ Exit(ev)
    /\ Record(ev, "persist")
    /\ UNCHANGED <<raw_data, conn, db, statements, i, event_log, valid,
                   reported, trace>>

\* display_sample_output(event_log) and the closing prints of main
Display(ev) ==
    /\ pc = "display"
    /\ Exit(IF ev = "ok" THEN "return" ELSE ev)
    /\ Record(ev, "report")
    /\ UNCHANGED <<raw_data, conn, db, statements, i, event_log, valid,
                   reported, outFile, trace>>

Next ==
    \/ MainStart
    \/ \E ev \in {"ok", "Exception", "KeyboardInterrupt"} : Download(ev)
    \/ Connect
    \/ \E ev \in {"ok", "Exception", "KeyboardInterrupt"} : ToSql(ev)
    \/ \E ev \in {"ok", "OSError", "KeyboardInterrupt"} : ReadRuleset(ev)
    \/ SkipStatement
    \/ \E ev \in {"ok", "sqlite3.Error", "KeyboardInterrupt"} : ExecuteStatement(ev)
    \/ LoopEnd
    \/ \E ev \in {"ok", "Exception", "KeyboardInterrupt"} : Extract(ev)
    \/ \E ev \in {"ok", "KeyboardInterrupt"} : Validate(ev)
    \/ \E ev \in {"ok", "OSError", "KeyboardInterrupt"} : Save(ev)
    \/ \E ev \in {"ok", "Exception", "KeyboardInterrupt"} : Display(ev)

Spec == Init /\ [][Next]_vars

TypeOK ==
    /\ pc \in {"main", "download", "connect", "to_sql", "read_ruleset",
               "execute", "extract", "validate", "save", "display", "done"}
    /\ raw_data \in {"None", "df"}
    /\ conn \in {"none", "open", "closed"}
    /\ i \in 0..(MaxStmts + 1)
    /\ Len(event_log) <= 1
    /\ valid \in {"unset", "pass", "fail"}
    /\ outFile \in {"none", "partial", "complete"}
    /\ exitCode \in {-1, 0, 1}

-----------------------------------------------------------------------------
\* Vocabulary of the properties

InTransformation == {"to_sql", "read_ruleset", "execute", "extract"}

Exited == pc = "done" /\ exitCode # -1

Validated == valid # "unset"

\* The frame the validator was given
Log == event_log[1]

Rows(log) == {log.rows[k] : k \in 1..Len(log.rows)}

HasRequiredColumns(log) == RequiredSet \subseteq log.columns

NullIn(log, col) == col \in log.columns /\ \E r \in Rows(log) : Cell(r, col) = NULL

TeamsOf(log) == {r.team : r \in Rows(log)}

IsPrefix(s, t) == Len(s) <= Len(t) /\ \A k \in 1..Len(s) : s[k] = t[k]

Entered(stage) == \E k \in 1..Len(trace) : trace[k] = stage

C2_StageOrder ==
    /\ IsPrefix(trace, Stages)
    /\ Entered("transform") => raw_data = "df"
    /\ Entered("validate") => event_log # <<>>
    /\ Entered("persist") => valid = "pass"
    /\ pc = "download" => trace = <<"acquire">>
    /\ pc \in InTransformation \cup {"connect"} => trace = <<"acquire", "transform">>
    /\ pc = "validate" => trace = <<"acquire", "transform", "validate">>
    /\ pc \in {"save", "display"} => trace = Stages
    /\ outFile # "none" => trace = Stages

C2_Witness == pc = "done" /\ trace = Stages /\ outFile = "complete"

C4_CancellationAborts ==
    cancelled \in {"acquire", "load", "ruleset_file", "statement", "extract",
                   "missing_relation"} =>
        /\ pc = "done"
        /\ ~Entered("validate")
        /\ ~Entered("persist")
        /\ valid = "unset"
        /\ outFile = "none"

C4_Witness == cancelled = "extract" /\ pc = "done" /\ outFile = "none"

\* The five checks of the validator, in its order, and the ones a frame
\* violates: a null check applies to a column the frame has.
CheckOrder == <<"missing_columns", "empty", "null_case_id",
                "null_activity_name", "not_only_NE">>

Violates(log, check) ==
    IF check = "missing_columns" THEN ~HasRequiredColumns(log)
    ELSE IF check = "empty" THEN Rows(log) = {}
    ELSE IF check = "null_case_id" THEN NullIn(log, "case_id")
    ELSE IF check = "null_activity_name" THEN NullIn(log, "activity_name")
    ELSE "posteam" \in log.columns /\ TeamsOf(log) # {"NE"}

Violated(log) ==
    {c \in {CheckOrder[k] : k \in 1..Len(CheckOrder)} : Violates(log, c)}

FirstViolated(log) ==
    LET k == CHOOSE k \in 1..Len(CheckOrder) :
                 /\ Violates(log, CheckOrder[k])
                 /\ \A j \in 1..(k - 1) : ~Violates(log, CheckOrder[j])
    IN  CheckOrder[k]

ReportedSet == {reported[k] : k \in 1..Len(reported)}

\* C5 as stated: the validator reports every check the frame violates.
C5_AllViolationsReported ==
    Validated => ReportedSet = Violated(Log)

\* C5, amended: the validator fails exactly when the frame violates at least
\* one of the five checks, and then reports one violation, the first one in
\* the order of the checks.
C5_FirstViolationReported ==
    Validated =>
        /\ valid = "fail" <=> Violated(Log) # {}
        /\ valid = "fail" => reported = <<FirstViolated(Log)>>
        /\ valid = "pass" => reported = <<>>

C5_Witness ==
    /\ Validated
    /\ Cardinality(Violated(Log)) >= 2
    /\ reported = <<"null_activity_name">>

\* C6: a frame with the three required columns and at least one row fails with
\* the null-case_id violation when a case_id is null, and fails when an
\* activity_name is null; a frame written to the output file, in whole or in
\* part, has no null case_id and no null activity_name.
C6_NullKeysRejected ==
    /\ (Validated /\ HasRequiredColumns(Log) /\ Rows(Log) # {}) =>
          /\ NullIn(Log, "case_id") =>
                (valid = "fail" /\ reported = <<"null_case_id">>)
          /\ NullIn(Log, "activity_name") => valid = "fail"
    /\ outFile # "none" =>
          \A r \in Rows(Log) : r.case_id \notin {NULL, ABSENT}
                               /\ r.activity_name \notin {NULL, ABSENT}

C6_Witness ==
    /\ Validated
    /\ Len(Log.rows) = 2
    /\ Log.rows[1].case_id = "drive1"
    /\ Log.rows[2].case_id = NULL
    /\ reported = <<"null_case_id">>

\* C7 as stated: a frame that holds rows of two different teams does not reach
\* the persist stage, whatever columns it has.
C7_OneTeamPersisted ==
    Entered("persist") => Cardinality(TeamsOf(Log) \ {NULL}) <= 1

\* C7, amended: a frame that has the posteam column and reaches the persist
\* stage holds records of the team NE only, and a frame with that column and
\* records of two teams that passes the four earlier checks fails with the
\* team violation; a frame without the column is not checked.
C7_OnlyNEWhenPosteamProjected ==
    /\ (Entered("persist") /\ "posteam" \in Log.columns) => TeamsOf(Log) = {"NE"}
    /\ (Validated /\ "posteam" \in Log.columns /\ Cardinality(TeamsOf(Log)) >= 2
          /\ Violated(Log) \subseteq {"not_only_NE"}) =>
             (valid = "fail" /\ reported = <<"not_only_NE">>)

C7_Witness ==
    /\ Validated
    /\ "posteam" \in Log.columns
    /\ TeamsOf(Log) = {"NE", "KC"}
    /\ Log.rows[1].team = "NE"
    /\ reported = <<"not_only_NE">>

\* C8 as stated: no row of a written output has a null transformed_time.
C8_NoNullTimePersisted ==
    outFile # "none" => \A r \in Rows(Log) : r.transformed_time # NULL

\* C8, amended: a written output has the transformed_time column (and no null
\* case_id or activity_name); the values of the column are not checked.
C8_TimeColumnPersisted ==
    outFile # "none" =>
        /\ "transformed_time" \in Log.columns
        /\ \A r \in Rows(Log) : r.transformed_time # ABSENT
        /\ ~NullIn(Log, "case_id")
        /\ ~NullIn(Log, "activity_name")

C8_Witness ==
    /\ outFile = "complete"
    /\ \E r \in Rows(Log) : r.transformed_time = NULL

C10_ConnectionClosed ==
    /\ pc \in InTransformation => conn = "open"
    /\ pc \notin InTransformation =>
          /\ conn # "open"
          /\ db = EmptyDb
    /\ Entered("transform") /\ pc \notin InTransformation \cup {"connect"} =>
          conn = "closed"

C10_Witness ==
    /\ pc = "done"
    /\ cancelled = "statement"
    /\ conn = "closed"

====
